---------------------------- MODULE Spec2Model ----------------------------
(***************************************************************************)
(* Model of plugins/audit/cors_origin.py (w3af): the CORS audit plugin,    *)
(* its four analysis rules, the report filter (_filter_report) and the     *)
(* plugin options.                                                         *)
(*                                                                         *)
(* Python strings on which the code computes (lower, upper, strip, split,  *)
(* "in") are sequences of one-character strings.  An optional value (a     *)
(* header that may be None) is a record [present, val].                    *)
(***************************************************************************)
EXTENDS Integers, Sequences, FiniteSets, TLC

(***************************************************************************)
(* Bounds of the model                                                     *)
(***************************************************************************)
\* number of audit() calls in a sequential run
MaxAudits == 6
\* number of set_options() calls in a configuration run
MaxSetOptions == 2
\* number of audit() calls in a configuration run
MaxOptAudits == 2
\* number of _filter_report calls started in a concurrent run
MaxCalls == 6
\* number of worker threads in a concurrent run
NumThreads == 2

(***************************************************************************)
(* Python values                                                           *)
(***************************************************************************)
None == [present |-> FALSE, val |-> <<>>]
Some(s) == [present |-> TRUE, val |-> s]

LowerChars == <<"a","b","c","d","e","f","g","h","i","j","k","l","m","n","o","p","q","r","s","t","u","v","w","x","y","z">>
UpperChars == <<"A","B","C","D","E","F","G","H","I","J","K","L","M","N","O","P","Q","R","S","T","U","V","W","X","Y","Z">>
Whitespace == {" ", "\t", "\n", "\r", "\f"}

\* str.lower() and str.upper(), character by character
LowerChar(c) ==
    IF \E i \in 1..Len(UpperChars) : UpperChars[i] = c
    THEN LowerChars[CHOOSE i \in 1..Len(UpperChars) : UpperChars[i] = c]
    ELSE c
UpperChar(c) ==
    IF \E i \in 1..Len(LowerChars) : LowerChars[i] = c
    THEN UpperChars[CHOOSE i \in 1..Len(LowerChars) : LowerChars[i] = c]
    ELSE c
Lower(s) == [i \in 1..Len(s) |-> LowerChar(s[i])]
Upper(s) == [i \in 1..Len(s) |-> UpperChar(s[i])]

\* str.strip(): drop the leading and the trailing whitespace
RECURSIVE LStrip(_)
LStrip(s) ==
    IF Len(s) > 0 /\ Head(s) \in Whitespace THEN LStrip(Tail(s)) ELSE s
RECURSIVE RStrip(_)
RStrip(s) ==
    IF Len(s) > 0 /\ s[Len(s)] \in Whitespace
    THEN RStrip(SubSeq(s, 1, Len(s) - 1))
    ELSE s
Strip(s) == RStrip(LStrip(s))

\* "sub in s" on two strings
ContainsAsEqual(sub, s) == sub = s
Contains(sub, s) ==
    \E i \in 1..(Len(s) + 1) :
        /\ i + Len(sub) - 1 <= Len(s)
        /\ SubSeq(s, i, i + Len(sub) - 1) = sub

\* s.split(sep) for a one-character separator: the list of the pieces
RECURSIVE Split(_, _)
Split(s, sep) ==
    IF \E i \in 1..Len(s) : s[i] = sep
    THEN LET i == CHOOSE j \in 1..Len(s) :
                      s[j] = sep /\ \A k \in 1..(j - 1) : s[k] /= sep
         IN  <<SubSeq(s, 1, i - 1)>> \o Split(SubSeq(s, i + 1, Len(s)), sep)
    ELSE <<s>>

\* ', '.join(a_set): the members in the set's (arbitrary but fixed) order
RECURSIVE Join(_)
Join(S) ==
    IF S = {} THEN <<>>
    ELSE LET m == CHOOSE x \in S : TRUE
         IN  IF S = {m} THEN m ELSE m \o <<",", " ">> \o Join(S \ {m})

\* str(n) of a one-digit number, as the %s conversion gives it
DigitChars == <<"0","1","2","3","4","5","6","7","8","9">>
Str(n) == <<DigitChars[n + 1]>>

\* msg % args and msg += part on a message: the template parts and the
\* values substituted so far.  A message that was never formatted has no
\* values: it still holds its %s place holders.
Msg(part) == [tpl |-> <<part>>, args |-> <<>>]
Format(msg, args) == [tpl |-> msg.tpl, args |-> msg.args \o args]
Extend(msg, part) == [tpl |-> msg.tpl \o <<part>>, args |-> msg.args]

(***************************************************************************)
(* Constants of the plugin and of its collaborators                        *)
(***************************************************************************)
MAX_REPEATED_REPORTS == 3
SENSITIVE_METHODS == {<<"P","U","T">>, <<"D","E","L","E","T","E">>}
COMMON_METHODS ==
    {<<"P","O","S","T">>, <<"G","E","T">>, <<"O","P","T","I","O","N","S">>,
     <<"P","U","T">>, <<"D","E","L","E","T","E">>}
DEFAULT_ORIGIN == <<"h","t","t","p",":","/","/","w","3","a","f",".","s","o","u","r","c","e","f","o","r","g","e",".","n","e","t","/">>

ACCESS_CONTROL_ALLOW_ORIGIN == <<"A","c","c","e","s","s","-","C","o","n","t","r","o","l","-","A","l","l","o","w","-","O","r","i","g","i","n">>
ACCESS_CONTROL_ALLOW_METHODS == <<"A","c","c","e","s","s","-","C","o","n","t","r","o","l","-","A","l","l","o","w","-","M","e","t","h","o","d","s">>
ACCESS_CONTROL_ALLOW_CREDENTIALS == <<"A","c","c","e","s","s","-","C","o","n","t","r","o","l","-","A","l","l","o","w","-","C","r","e","d","e","n","t","i","a","l","s">>

\* the severity module
INFORMATION == "INFORMATION"
LOW == "LOW"
MEDIUM == "MEDIUM"
HIGH == "HIGH"

\* the four counter attributes and the section each rule passes with it
UA_COUNTER == "_universal_allow_counter"
OE_COUNTER == "_origin_echo_counter"
UOAC_COUNTER == "_universal_origin_allow_creds_counter"
AM_COUNTER == "_allow_methods_counter"
Counters == {UA_COUNTER, OE_COUNTER, UOAC_COUNTER, AM_COUNTER}

\* 'universal allow-origin', 'origin echoed in allow-origin',
\* 'withCredentials CORS implementation error', 'sensitive and uncommon methods'
UA_SECTION == <<"u","n","i","v","e","r","s","a","l"," ","a","l","l","o","w","-","o","r","i","g","i","n">>
OE_SECTION == <<"o","r","i","g","i","n"," ","e","c","h","o","e","d"," ","i","n"," ","a","l","l","o","w","-","o","r","i","g","i","n">>
UOAC_SECTION == <<"w","i","t","h","C","r","e","d","e","n","t","i","a","l","s"," ","C","O","R","S"," ","i","m","p","l","e","m","e","n","t","a","t","i","o","n"," ","e","r","r","o","r">>
AM_SECTION == <<"s","e","n","s","i","t","i","v","e"," ","a","n","d"," ","u","n","c","o","m","m","o","n"," ","m","e","t","h","o","d","s">>
SectionOf(counter) ==
    CASE counter = UA_COUNTER -> UA_SECTION
      [] counter = OE_COUNTER -> OE_SECTION
      [] counter = UOAC_COUNTER -> UOAC_SECTION
      [] counter = AM_COUNTER -> AM_SECTION

SUMMARY_NAME == "Multiple CORS misconfigurations"

\* vuln.vuln() with its setters applied
Vuln(url, id, sev, name, desc) ==
    [url |-> url, id |-> id, severity |-> sev, name |-> name, desc |-> desc]


(***************************************************************************)
(* The plugin instance and the two sinks it writes to.  p is the record    *)
(*   counters : the four *_counter attributes                              *)
(*   reported : _reported_global                                           *)
(*   kb       : the findings handed to kb.kb.append, in order              *)
(*   out      : the messages handed to om.out.vulnerability, in order      *)
(*   log      : per counter, what each _filter_report call returned        *)
(***************************************************************************)
FreshPlugin ==
    [counters |-> [c \in Counters |-> 0],
     reported |-> {},
     kb       |-> <<>>,
     out      |-> <<>>,
     log      |-> [c \in Counters |-> <<>>]]

kb_append(p, v) == [p EXCEPT !.kb = Append(@, v)]
out_vulnerability(p, msg) == [p EXCEPT !.out = Append(@, msg)]

\* line 126: the test that lets a finding through individually
WithinLimitOff(counter_val) == counter_val < MAX_REPEATED_REPORTS
WithinLimit(counter_val) == counter_val <= MAX_REPEATED_REPORTS

\* line 131: has the summary of this section been reported
AlreadyReportedAny(reported, section) == reported /= {}
AlreadyReported(reported, section) == section \in reported

\* line 132
MarkReportedNot(reported, section) == reported
MarkReported(reported, section) == reported \cup {section}

\* lines 134-146: the summary finding and its message
SummaryMsg == Msg("More than %s URLs ... triggered the %s detection ...")
SummaryVulnOfFinding(section, vuln_severity, analysis_response) ==
    Vuln(analysis_response[1].url, analysis_response[1].id,
         analysis_response[1].severity, SUMMARY_NAME,
         Format(SummaryMsg, <<Str(MAX_REPEATED_REPORTS), section>>))
SummaryVuln(section, vuln_severity, analysis_response) ==
    Vuln(analysis_response[1].url, analysis_response[1].id, vuln_severity,
         SUMMARY_NAME,
         Format(SummaryMsg, <<Str(MAX_REPEATED_REPORTS), section>>))

\* _filter_report: the plugin after the call and the list returned
filter_report(p, counter, section, vuln_severity, analysis_response) ==
    IF Len(analysis_response) /= 0
    THEN LET counter_val == p.counters[counter]
         IN  IF WithinLimit(counter_val)
             THEN [self |-> [p EXCEPT !.counters[counter] = counter_val + 1],
                   ret  |-> analysis_response]
             ELSE IF ~AlreadyReported(p.reported, section)
                  THEN LET v == SummaryVuln(section, vuln_severity,
                                            analysis_response)
                           p1 == [p EXCEPT !.reported =
                                               MarkReported(@, section)]
                           p2 == kb_append(p1, v)
                           p3 == out_vulnerability(p2, SummaryMsg)
                       IN  [self |-> p3, ret |-> <<v>>]
                  ELSE [self |-> p, ret |-> <<>>]
    ELSE [self |-> p, ret |-> <<>>]

\* a rule's "return self._filter_report(...)": the call, with its result
\* recorded in the log of the counter
return_filter_report(p, counter, section, vuln_severity, analysis_response) ==
    LET r == filter_report(p, counter, section, vuln_severity,
                           analysis_response)
    IN  [self   |-> [r.self EXCEPT !.log[counter] = Append(@, r.ret)],
         ret    |-> r.ret,
         raised |-> FALSE]

\* 'true' in allow_credentials_str.lower(), False for None
AllowsCredentialsCased(allow_credentials_str) ==
    /\ allow_credentials_str.present
    /\ Contains(<<"t","r","u","e">>, allow_credentials_str.val)
AllowsCredentials(allow_credentials_str) ==
    /\ allow_credentials_str.present
    /\ Contains(<<"t","r","u","e">>, Lower(allow_credentials_str.val))

(***************************************************************************)
(* The four analysis methods.  Each gives the plugin after the call, the   *)
(* list returned and whether the call raised.                              *)
(***************************************************************************)
UA_NAME == "Access-Control-Allow-Origin set to \"*\""
UA_MSG == Msg("... \"%s\", returned an %s header with the value set to \"*\" ...")

\* lines 254-263
UA_Vuln(forged_req, response) ==
    Vuln(forged_req.url, response.id, LOW, UA_NAME,
         Format(UA_MSG, <<forged_req.url, ACCESS_CONTROL_ALLOW_ORIGIN>>))

universal_allow(p, forged_req, url, origin, response, allow_origin, allow_credentials, allow_methods) ==
    IF allow_origin = Some(<<"*">>)
    THEN LET v == UA_Vuln(forged_req, response)
             p1 == kb_append(p, v)
             p2 == out_vulnerability(p1, UA_MSG)
         IN  return_filter_report(p2, UA_COUNTER, UA_SECTION, MEDIUM, <<v>>)
    ELSE [self |-> p, ret |-> <<>>, raised |-> FALSE]

OE_NAME_CREDS == "Insecure Access-Control-Allow-Origin with credentials"
OE_NAME == "Insecure Access-Control-Allow-Origin"
OE_MSG_CREDS == Msg("... \"%s\", returned an %s header ... and a %s header with the value set to \"true\" ...")
OE_MSG == Msg("... \"%s\", returned an %s header with the value set to the value sent ...")

origin_echo(p, forged_req, url, origin, response, allow_origin, allow_credentials_str, allow_methods) ==
    IF allow_origin.present
    THEN LET allow_origin_l == Lower(allow_origin.val)
             allow_credentials == AllowsCredentials(allow_credentials_str)
         IN  IF ~origin.present
             THEN \* None in a_string: TypeError
                  [self |-> p, ret |-> <<>>, raised |-> TRUE]
             ELSE IF Contains(origin.val, allow_origin_l)
             THEN LET sev == IF allow_credentials THEN HIGH ELSE LOW
                      name == IF allow_credentials THEN OE_NAME_CREDS
                                                   ELSE OE_NAME
                      msg == IF allow_credentials
                             THEN Format(OE_MSG_CREDS,
                                         <<forged_req.url,
                                           ACCESS_CONTROL_ALLOW_ORIGIN,
                                           ACCESS_CONTROL_ALLOW_CREDENTIALS>>)
                             ELSE Format(OE_MSG,
                                         <<forged_req.url,
                                           ACCESS_CONTROL_ALLOW_ORIGIN>>)
                      v == Vuln(forged_req.url, response.id, sev, name, msg)
                      p1 == kb_append(p, v)
                      p2 == out_vulnerability(p1, msg)
                  IN  return_filter_report(p2, OE_COUNTER, OE_SECTION, HIGH,
                                           <<v>>)
             ELSE [self |-> p, ret |-> <<>>, raised |-> FALSE]
    ELSE [self |-> p, ret |-> <<>>, raised |-> FALSE]

UOAC_NAME == "Incorrect withCredentials implementation"
UOAC_MSG == Msg("... \"%s\", returned an %s header with the value set to \"*\"  and an %s header ...")

universal_origin_allow_creds(p, forged_req, url, origin, response, allow_origin, allow_credentials_str, allow_methods) ==
    LET allow_credentials == AllowsCredentials(allow_credentials_str)
    IN  IF allow_credentials /\ allow_origin = Some(<<"*">>)
        THEN LET v == Vuln(forged_req.url, response.id, INFORMATION,
                           UOAC_NAME,
                           Format(UOAC_MSG,
                                  <<forged_req.url,
                                    ACCESS_CONTROL_ALLOW_ORIGIN,
                                    ACCESS_CONTROL_ALLOW_CREDENTIALS>>))
                 p1 == kb_append(p, v)
                 p2 == out_vulnerability(p1, UOAC_MSG)
             IN  return_filter_report(p2, UOAC_COUNTER, UOAC_SECTION,
                                      INFORMATION, <<v>>)
        ELSE [self |-> p, ret |-> <<>>, raised |-> FALSE]

AM_NAME_BOTH == "Sensitive and strange CORS methods enabled"
AM_NAME_SENSITIVE == "Sensitive CORS methods enabled"
AM_NAME_STRANGE == "Uncommon CORS methods enabled"
AM_MSG == Msg("... \"%s\", returned an %s header with the value set to \"%s\" which is insecure")
AM_PART_BOTH == " since it allows the following sensitive HTTP methods: %s and the following uncommon HTTP methods: %s."
AM_PART_SENSITIVE == " since it allows the following sensitive HTTP methods: %s."
AM_PART_STRANGE == " since it allows the following uncommon HTTP methods: %s."

\* lines 185-188: split on ',', strip and upper-case each piece, as a set
MethodsSetNoUpper(allow_methods) ==
    LET allow_methods_list == Split(allow_methods, ",")
    IN  {Strip(allow_methods_list[i]) : i \in 1..Len(allow_methods_list)}
MethodsSet(allow_methods) ==
    LET allow_methods_list == Split(allow_methods, ",")
    IN  {Upper(Strip(allow_methods_list[i])) :
             i \in 1..Len(allow_methods_list)}
\* lines 190-200
ReportSensitive(allow_methods_set) ==
    {m \in SENSITIVE_METHODS : m \in allow_methods_set}
ReportStrange(allow_methods_set) ==
    {m \in allow_methods_set : m \notin COMMON_METHODS}

allow_methods_rule(p, forged_req, url, origin, response, allow_origin, allow_credentials, allow_methods) ==
    IF allow_methods.present
    THEN LET allow_methods_set == MethodsSet(allow_methods.val)
             report_sensitive == ReportSensitive(allow_methods_set)
             report_strange == ReportStrange(allow_methods_set)
         IN  IF report_sensitive /= {} \/ report_strange /= {}
             THEN LET msg0 == Format(AM_MSG,
                                     <<url, ACCESS_CONTROL_ALLOW_METHODS,
                                       allow_methods.val>>)
                      name == IF report_sensitive /= {} /\ report_strange /= {}
                              THEN AM_NAME_BOTH
                              ELSE IF report_sensitive /= {}
                                   THEN AM_NAME_SENSITIVE
                                   ELSE AM_NAME_STRANGE
                      msg == IF report_sensitive /= {} /\ report_strange /= {}
                             THEN Format(Extend(msg0, AM_PART_BOTH),
                                         <<Join(report_sensitive),
                                           Join(report_strange)>>)
                             ELSE IF report_sensitive /= {}
                                  THEN Format(Extend(msg0, AM_PART_SENSITIVE),
                                              <<Join(report_sensitive)>>)
                                  ELSE Format(Extend(msg0, AM_PART_STRANGE),
                                              <<Join(report_strange)>>)
                      v == Vuln(forged_req.url, response.id, LOW, name, msg)
                      p1 == kb_append(p, v)
                      p2 == out_vulnerability(p1, msg)
                  IN  return_filter_report(p2, AM_COUNTER, AM_SECTION, LOW,
                                           <<v>>)
             ELSE [self |-> p, ret |-> <<>>, raised |-> FALSE]
    ELSE [self |-> p, ret |-> <<>>, raised |-> FALSE]

\* _analyze_server_response: the four methods in the order of the list, the
\* lists they return concatenated; a method that raises ends the call
RuleNames == <<"_universal_allow", "_origin_echo",
               "_universal_origin_allow_creds", "_allow_methods">>
analysis_method(name, p, forged_req, url, origin, response, allow_origin, allow_credentials, allow_methods) ==
    CASE name = "_universal_allow" ->
             universal_allow(p, forged_req, url, origin, response,
                             allow_origin, allow_credentials, allow_methods)
      [] name = "_origin_echo" ->
             origin_echo(p, forged_req, url, origin, response,
                         allow_origin, allow_credentials, allow_methods)
      [] name = "_universal_origin_allow_creds" ->
             universal_origin_allow_creds(p, forged_req, url, origin, response,
                                          allow_origin, allow_credentials,
                                          allow_methods)
      [] name = "_allow_methods" ->
             allow_methods_rule(p, forged_req, url, origin, response,
                                allow_origin, allow_credentials, allow_methods)

RECURSIVE run_methods(_, _, _, _, _, _, _, _, _, _)
run_methods(names, acc, forged_req, url, origin, response, allow_origin, allow_credentials, allow_methods, k) ==
    IF k > Len(names) \/ acc.raised THEN acc
    ELSE LET r == analysis_method(names[k], acc.self, forged_req, url, origin,
                                  response, allow_origin, allow_credentials,
                                  allow_methods)
         IN  run_methods(names,
                         [self |-> r.self, ret |-> acc.ret \o r.ret,
                          raised |-> r.raised],
                         forged_req, url, origin, response,
                         allow_origin, allow_credentials, allow_methods, k + 1)

analyze_server_response(p, forged_req, url, origin, response, allow_origin, allow_credentials, allow_methods) ==
    run_methods(RuleNames, [self |-> p, ret |-> <<>>, raised |-> FALSE],
                forged_req, url, origin, response,
                allow_origin, allow_credentials, allow_methods, 1)

(***************************************************************************)
(* State                                                                   *)
(***************************************************************************)
VARIABLES
    plugin,              \* the plugin instance with the two sinks (see FreshPlugin)
    origin_header_value, \* the plugin option
    sent,                \* the forged requests handed to send_mutant, in order
    audits,              \* number of audit() calls made
    setopts,             \* number of set_options() calls made
    last,                \* the last call made and how it ended
    pc,                  \* per thread: the line of _filter_report it is at
    frame,               \* per thread: the arguments and locals of its call
    calls,               \* number of _filter_report calls started by threads
    probe                \* the last call made on one response, with its
                         \* arguments, the plugin before it and its result

vars == <<plugin, origin_header_value, sent, audits, setopts, last,
          pc, frame, calls, probe>>
threadVars == <<pc, frame, calls>>

Threads == 1..NumThreads
NoFrame == [counter |-> UA_COUNTER, vuln_severity |-> LOW,
            analysis_response |-> <<>>, counter_val |-> 0]
\* result is what the call returned (None when it returned nothing);
\* analysis is what _analyze_server_response returned to it, origin by origin
NoCall == [op |-> "none", cors |-> FALSE, failed |-> FALSE, raised |-> FALSE,
           value |-> None, result |-> None, analysis |-> <<>>]
NoProbe == [op |-> "none", origin |-> None, allow_origin |-> None,
            allow_credentials |-> None, allow_methods |-> None,
            counter |-> UA_COUNTER, url |-> <<>>, before |-> FreshPlugin,
            ret |-> <<>>, raised |-> FALSE]

\* __init__
Init ==
    /\ plugin = FreshPlugin
    /\ origin_header_value = Some(DEFAULT_ORIGIN)
    /\ sent = <<>>
    /\ audits = 0
    /\ setopts = 0
    /\ last = NoCall
    /\ pc = [t \in Threads |-> "idle"]
    /\ frame = [t \in Threads |-> NoFrame]
    /\ calls = 0
    /\ probe = NoProbe

(***************************************************************************)
(* The collaborators: the request to audit, the transport, the server      *)
(***************************************************************************)
URLs == {<<"/","a">>}
\* a fuzzable request and what provides_cors_features answers for it
Freqs == [url : URLs, cors : BOOLEAN]

\* what send_mutant does with a forged request: it raises, or it gives a
\* response with the three CORS headers (absent headers are None)
TransportError ==
    [error |-> TRUE, allow_origin |-> None, allow_credentials |-> None,
     allow_methods |-> None]
Response(ao, ac, am) ==
    [error |-> FALSE, allow_origin |-> ao, allow_credentials |-> ac,
     allow_methods |-> am]
\* the server answers "*" with credentials, echoes the Origin it was sent,
\* or lists the methods it allows
Responses(origin) ==
    {Response(Some(<<"*">>), Some(<<"t","r","u","e">>), None),
     Response(IF origin.present THEN origin ELSE Some(<<"n","u","l","l">>),
              None, None),
     Response(None, None, Some(<<"P","U","T",","," ","t","r","a","c","e">>))}
Outcomes(origin) == {TransportError} \cup Responses(origin)

build_cors_request(url, origin) == [url |-> url, origin |-> origin]

\* line 99 has no handler around send_mutant: what it raises leaves
\* analyze_cors_security and audit
OnTransportErrorContinue(st) == st
OnTransportError(st) == [st EXCEPT !.raised = TRUE]

\* lines 93-106, from the k-th origin of the list on.  st is the plugin, the
\* requests sent, whether the call raised, whether the transport failed, and
\* (analysis) the lists _analyze_server_response returned at line 104, which
\* the loop does not keep;
\* outcomes[k] is what the transport does with the k-th forged request
\* lines 102-104: the loop state after _analyze_server_response gave r
Analysed(st, r) ==
    [st EXCEPT !.self = r.self, !.raised = r.raised, !.analysis = @ \o r.ret]

RECURSIVE for_origin(_, _, _, _, _)
for_origin(st, url, origin_list, outcomes, k) ==
    IF k > Len(origin_list) \/ st.raised THEN st
    ELSE LET origin == origin_list[k]
             forged_req == build_cors_request(url, origin)
             st1 == [st EXCEPT !.sent = Append(@, forged_req)]
         IN  IF outcomes[k].error
             THEN for_origin(OnTransportError([st1 EXCEPT !.failed = TRUE]),
                             url, origin_list, outcomes, k + 1)
             ELSE LET response == [id |-> Len(st1.sent)]
                  IN  for_origin(
                          Analysed(st1, analyze_server_response(
                                            st1.self, forged_req, url, origin,
                                            response, outcomes[k].allow_origin,
                                            outcomes[k].allow_credentials,
                                            outcomes[k].allow_methods)),
                          url, origin_list, outcomes, k + 1)

\* line 81
OriginList(origin) == <<origin>>

\* lines 77-106: the function ends after the loop, without a return
\* statement, so its caller gets None
DriverResult(st) == None
\* the end of analyze_cors_security, the loop having ended with st
DriverEnd(st) ==
    [self |-> st.self, sent |-> st.sent, raised |-> st.raised,
     failed |-> st.failed, analysis |-> st.analysis,
     result |-> DriverResult(st)]

analyze_cors_security(p, snt, url, origin, outcomes) ==
    DriverEnd(for_origin([self |-> p, sent |-> snt, raised |-> FALSE,
                          failed |-> FALSE, analysis |-> <<>>],
                         url, OriginList(origin), outcomes, 1))

\* line 71: the guard of audit
SkipAuditNever(freq) == FALSE
SkipAudit(freq) == ~freq.cors

(***************************************************************************)
(* Actions: the calls made on the plugin one after another                 *)
(***************************************************************************)
\* line 75, once analyze_cors_security has ended with st
audit_end(freq, st) ==
    /\ plugin' = st.self
    /\ sent' = st.sent
    /\ last' = [NoCall EXCEPT !.op = "audit",
                              !.cors = freq.cors,
                              !.failed = st.failed,
                              !.raised = st.raised,
                              !.result = st.result,
                              !.analysis = st.analysis]

audit(freq, outcomes) ==
    /\ audits' = audits + 1
    /\ IF SkipAudit(freq)
       THEN /\ UNCHANGED <<plugin, sent>>
            /\ last' = [NoCall EXCEPT !.op = "audit", !.cors = freq.cors]
       ELSE audit_end(freq, analyze_cors_security(plugin, sent, freq.url,
                                                  origin_header_value,
                                                  outcomes))
    /\ UNCHANGED <<origin_header_value, setopts, threadVars, probe>>

\* line 397-398: the values set_options rejects
InvalidOriginNoStrip(value) == ~value.present \/ Len(value.val) = 0
InvalidOrigin(value) == ~value.present \/ Len(Strip(value.val)) = 0

set_options(value) ==
    /\ setopts' = setopts + 1
    /\ origin_header_value' = value
    /\ last' = [NoCall EXCEPT !.op = "set_options", !.value = value,
                              !.raised = InvalidOrigin(value)]
    /\ UNCHANGED <<plugin, sent, audits, threadVars, probe>>

AuditCall ==
    /\ audits < MaxAudits
    /\ \E freq \in Freqs :
           \E o \in Outcomes(origin_header_value) :
               audit(freq, <<o>>)

Next == AuditCall

Spec == Init /\ [][Next]_vars

\* the option values a configuration may hold
OptionValues ==
    {None, Some(<<>>), Some(<<" ", "\t">>), Some(<<" ", "*", " ">>),
     Some(<<"*">>), Some(DEFAULT_ORIGIN)}

SetOptionsCall ==
    /\ setopts < MaxSetOptions
    /\ \E value \in OptionValues : set_options(value)

AuditOptCall ==
    /\ audits < MaxOptAudits
    /\ \E freq \in Freqs :
           \E o \in Outcomes(origin_header_value) :
               audit(freq, <<o>>)

NextOpts == SetOptionsCall \/ AuditOptCall

SpecOpts == Init /\ [][NextOpts]_vars

(***************************************************************************)
(* Concurrent audits: the worker threads of the scan call audit on the one *)
(* plugin instance.  Each thread runs _universal_allow on a response whose *)
(* Access-Control-Allow-Origin is "*" and then _filter_report, one shared   *)
(* read or write at a time; nothing in the code orders the threads.        *)
(***************************************************************************)
Return(t, ret) ==
    /\ pc' = [pc EXCEPT ![t] = "idle"]
    /\ frame' = [frame EXCEPT ![t] = NoFrame]

\* lines 252-269: the rule fires, records its finding and calls _filter_report
t_call(t) ==
    /\ pc[t] = "idle"
    /\ calls < MaxCalls
    /\ \E url \in URLs :
        LET forged_req == build_cors_request(url, origin_header_value)
            v == UA_Vuln(forged_req, [id |-> calls + 1])
        IN  /\ plugin' = out_vulnerability(kb_append(plugin, v), UA_MSG)
            /\ frame' = [frame EXCEPT ![t] =
                            [counter |-> UA_COUNTER, vuln_severity |-> MEDIUM,
                             analysis_response |-> <<v>>, counter_val |-> 0]]
    /\ calls' = calls + 1
    /\ pc' = [pc EXCEPT ![t] = "l124"]
    /\ UNCHANGED <<origin_header_value, sent, audits, setopts, last, probe>>

\* line 124: counter_val = getattr(self, counter)
t_l124(t) ==
    /\ pc[t] = "l124"
    /\ frame' = [frame EXCEPT ![t].counter_val =
                                  plugin.counters[frame[t].counter]]
    /\ pc' = [pc EXCEPT ![t] = "l126"]
    /\ UNCHANGED <<plugin, calls, origin_header_value, sent, audits, setopts,
                   last, probe>>

\* line 126: if counter_val <= self.MAX_REPEATED_REPORTS
t_l126(t) ==
    /\ pc[t] = "l126"
    /\ pc' = [pc EXCEPT ![t] = IF WithinLimit(frame[t].counter_val)
                               THEN "l127" ELSE "l131"]
    /\ UNCHANGED <<plugin, frame, calls, origin_header_value, sent, audits,
                   setopts, last, probe>>

\* lines 127-129: counter_val += 1; setattr; return analysis_response
t_l127(t) ==
    /\ pc[t] = "l127"
    /\ plugin' = [plugin EXCEPT
                     !.counters[frame[t].counter] = frame[t].counter_val + 1,
                     !.log[frame[t].counter] =
                         Append(@, frame[t].analysis_response)]
    /\ Return(t, frame[t].analysis_response)
    /\ UNCHANGED <<calls, origin_header_value, sent, audits, setopts, last, probe>>

\* line 131: if section not in self._reported_global (else line 152)
t_l131(t) ==
    /\ pc[t] = "l131"
    /\ IF ~AlreadyReported(plugin.reported, SectionOf(frame[t].counter))
       THEN /\ pc' = [pc EXCEPT ![t] = "l132"]
            /\ UNCHANGED <<plugin, frame>>
       ELSE /\ plugin' = [plugin EXCEPT !.log[frame[t].counter] =
                                            Append(@, <<>>)]
            /\ Return(t, <<>>)
    /\ UNCHANGED <<calls, origin_header_value, sent, audits, setopts, last, probe>>

\* line 132: self._reported_global.add(section)
t_l132(t) ==
    /\ pc[t] = "l132"
    /\ plugin' = [plugin EXCEPT !.reported =
                                    MarkReported(@, SectionOf(frame[t].counter))]
    /\ pc' = [pc EXCEPT ![t] = "l134"]
    /\ UNCHANGED <<frame, calls, origin_header_value, sent, audits, setopts,
                   last, probe>>

\* lines 134-150: the summary is built, recorded and returned
t_l134(t) ==
    /\ pc[t] = "l134"
    /\ LET v == SummaryVuln(SectionOf(frame[t].counter),
                            frame[t].vuln_severity,
                            frame[t].analysis_response)
           p1 == out_vulnerability(kb_append(plugin, v), SummaryMsg)
       IN  plugin' = [p1 EXCEPT !.log[frame[t].counter] = Append(@, <<v>>)]
    /\ Return(t, <<>>)
    /\ UNCHANGED <<calls, origin_header_value, sent, audits, setopts, last, probe>>

ThreadCall == \E t \in Threads : t_call(t)
ThreadL124 == \E t \in Threads : t_l124(t)
ThreadL126 == \E t \in Threads : t_l126(t)
ThreadL127 == \E t \in Threads : t_l127(t)
ThreadL131 == \E t \in Threads : t_l131(t)
ThreadL132 == \E t \in Threads : t_l132(t)
ThreadL134 == \E t \in Threads : t_l134(t)

NextConc ==
    \/ ThreadCall
    \/ ThreadL124
    \/ ThreadL126
    \/ ThreadL127
    \/ ThreadL131
    \/ ThreadL132
    \/ ThreadL134

SpecConc == Init /\ [][NextConc]_vars

(***************************************************************************)
(* One response analysed on a plugin that has audits behind it.  The plugin *)
(* starts as it is after some audits of four kinds of response (each fires *)
(* one rule, or _universal_allow with _universal_origin_allow_creds); then  *)
(* _analyze_server_response is applied to one response, or _filter_report   *)
(* to an empty list.                                                       *)
(***************************************************************************)
EVIL_ORIGIN == <<"h","t","t","p",":","/","/","e","v","i","l",".","t","e","s","t">>
\* how many audits of one kind of response lie behind: none, as many as are
\* let through one by one, or one more (the summary is out)
WarmCounts == {0, MAX_REPEATED_REPORTS + 1, MAX_REPEATED_REPORTS + 2}

RECURSIVE Warm(_, _, _, _, _)
Warm(p, n, allow_origin, allow_credentials, allow_methods) ==
    IF n = 0 THEN p
    ELSE LET q == Warm(p, n - 1, allow_origin, allow_credentials, allow_methods)
             url == CHOOSE u \in URLs : TRUE
             forged_req == build_cors_request(url, Some(DEFAULT_ORIGIN))
         IN  analyze_server_response(q, forged_req, url, Some(DEFAULT_ORIGIN),
                                     [id |-> Len(q.kb) + 1], allow_origin,
                                     allow_credentials, allow_methods).self

WarmPlugin(a, b, c, d) ==
    LET p1 == Warm(FreshPlugin, a, Some(<<"*">>), None, None)
        p2 == Warm(p1, b, Some(<<"*">>), Some(<<"t","r","u","e">>), None)
        p3 == Warm(p2, c, Some(DEFAULT_ORIGIN), None, None)
    IN  Warm(p3, d, None, None, Some(<<"P","U","T">>))

InitRules ==
    /\ \E a \in WarmCounts, b \in WarmCounts, c \in WarmCounts, d \in WarmCounts :
           plugin = WarmPlugin(a, b, c, d)
    /\ origin_header_value = Some(DEFAULT_ORIGIN)
    /\ sent = <<>>
    /\ audits = 0
    /\ setopts = 0
    /\ last = NoCall
    /\ pc = [t \in Threads |-> "idle"]
    /\ frame = [t \in Threads |-> NoFrame]
    /\ calls = 0
    /\ probe = NoProbe

\* the probe origins (None is what a rejected set_options(None) leaves in
\* origin_header_value) and the header values a response may carry
RuleOrigins ==
    {Some(DEFAULT_ORIGIN), Some(EVIL_ORIGIN), Some(<<"X">>), Some(<<"*">>),
     None}
AllowOriginValues ==
    {None, Some(<<"*">>), Some(EVIL_ORIGIN), Some(<<"H","T","T","P",":","/","/","E","V","I","L",".","T","E","S","T",".","a","t","t","a","c","k","e","r",".","t","e","s","t">>),
     Some(<<"X">>), Some(DEFAULT_ORIGIN)}
AllowCredentialsValues ==
    {None, Some(<<"t","r","u","e">>), Some(<<"T","r","u","e">>),
     Some(<<"f","a","l","s","e">>)}
AllowMethodsValues ==
    {None, Some(<<"p","o","s","t",","," ","G","e","t",","," ","T","R","A","C","E">>), Some(<<"P","U","T">>), Some(<<"G","E","T",",","P","O","S","T">>),
     Some(<<"p","u","t",",","t","r","a","c","e">>)}

AnalyzeResponse ==
    /\ probe.op = "none"
    /\ \E url \in URLs, origin \in RuleOrigins, ao \in AllowOriginValues,
          ac \in AllowCredentialsValues, am \in AllowMethodsValues :
           LET forged_req == build_cors_request(url, origin)
               r == analyze_server_response(plugin, forged_req, url, origin,
                                            [id |-> Len(plugin.kb) + 1],
                                            ao, ac, am)
           IN  /\ plugin' = r.self
               /\ probe' = [NoProbe EXCEPT !.op = "analyze",
                                           !.url = url,
                                           !.origin = origin,
                                           !.allow_origin = ao,
                                           !.allow_credentials = ac,
                                           !.allow_methods = am,
                                           !.before = plugin,
                                           !.ret = r.ret,
                                           !.raised = r.raised]
    /\ UNCHANGED <<origin_header_value, sent, audits, setopts, last,
                   threadVars>>

\* _filter_report called with an empty analysis_response
FilterEmpty ==
    /\ probe.op = "none"
    /\ \E c \in Counters, sev \in {INFORMATION, LOW, MEDIUM, HIGH} :
           LET r == filter_report(plugin, c, SectionOf(c), sev, <<>>)
           IN  /\ plugin' = r.self
               /\ probe' = [NoProbe EXCEPT !.op = "filter", !.counter = c,
                                           !.before = plugin, !.ret = r.ret]
    /\ UNCHANGED <<origin_header_value, sent, audits, setopts, last,
                   threadVars>>

NextRules == AnalyzeResponse \/ FilterEmpty

SpecRules == InitRules /\ [][NextRules]_vars

(***************************************************************************)
(* Properties                                                              *)
(***************************************************************************)
IsSummary(ret) == Len(ret) = 1 /\ ret[1].name = SUMMARY_NAME
IsIndividual(ret) == Len(ret) >= 1 /\ \A i \in 1..Len(ret) : ret[i].name /= SUMMARY_NAME
Class(ret) ==
    IF ret = <<>> THEN "empty"
    ELSE IF IsSummary(ret) THEN "summary" ELSE "individual"

RECURSIVE TotalReturned(_)
TotalReturned(lg) ==
    IF lg = <<>> THEN 0 ELSE Len(Head(lg)) + TotalReturned(Tail(lg))

Range(f) == {f[i] : i \in 1..Len(f)}
KbSet == Range(plugin.kb)
ReturnedSet ==
    UNION {UNION {Range(plugin.log[c][i]) : i \in 1..Len(plugin.log[c])} :
               c \in Counters}

\* C1: on a fresh plugin the first three _filter_report calls of a kind
\* return the finding they were given, the fourth returns one summary
\* finding and the fifth returns the empty list.
C1_ThreeThenSummary ==
    \A c \in Counters :
        LET lg == plugin.log[c]
        IN  /\ \A i \in 1..Len(lg) :
                   i <= MAX_REPEATED_REPORTS => IsIndividual(lg[i])
            /\ Len(lg) >= MAX_REPEATED_REPORTS + 1 =>
                   IsSummary(lg[MAX_REPEATED_REPORTS + 1])
            /\ Len(lg) >= MAX_REPEATED_REPORTS + 2 =>
                   lg[MAX_REPEATED_REPORTS + 2] = <<>>

\* C2: for every kind, the findings _filter_report has returned in all
\* (individual ones and summaries) number at most MAX_REPEATED_REPORTS + 1.
C2_AtMostThresholdPlusOne ==
    \A c \in Counters :
        TotalReturned(plugin.log[c]) <= MAX_REPEATED_REPORTS + 1

\* C3: in sequential execution a kind gets at most one summary, and every
\* call of the kind after its summary returns the empty list.
C3_OneSummaryThenNothing ==
    \A c \in Counters :
        LET lg == plugin.log[c]
        IN  /\ Cardinality({i \in 1..Len(lg) : IsSummary(lg[i])}) <= 1
            /\ \A i \in 1..Len(lg) : \A j \in 1..Len(lg) :
                   (IsSummary(lg[i]) /\ i < j) => lg[j] = <<>>
C3_Witness ==
    \E c \in Counters :
        LET lg == plugin.log[c]
        IN  \E i \in 1..Len(lg) : IsSummary(lg[i]) /\ i < Len(lg)

\* C4: with the steps of concurrent _filter_report calls interleaved, a
\* kind still gets at most one summary.
C4_ConcurrentOneSummary ==
    \A c \in Counters :
        Cardinality({i \in 1..Len(plugin.log[c]) :
                         IsSummary(plugin.log[c][i])}) <= 1

\* what the first n calls for counter c give on a plugin that has seen no
\* other kind: the plugin after them, with the log of what they returned
RECURSIVE AloneRun(_, _, _)
AloneRun(p, c, n) ==
    IF n = 0 THEN p
    ELSE LET q == AloneRun(p, c, n - 1)
             v == Vuln(<<"/">>, n, LOW, "raw", Msg("raw"))
         IN  return_filter_report(q, c, SectionOf(c), LOW, <<v>>).self

C5_SameAsAlone ==
    \A c \in Counters :
        LET n == Len(plugin.log[c])
            alone == AloneRun(FreshPlugin, c, n)
        IN  /\ plugin.counters[c] = alone.counters[c]
            /\ (SectionOf(c) \in plugin.reported
                    <=> SectionOf(c) \in alone.reported)
            /\ \A i \in 1..n :
                   Class(plugin.log[c][i]) = Class(alone.log[c][i])
C5_Frame ==
    \A c \in Counters :
        Len(plugin'.log[c]) = Len(plugin.log[c]) =>
            /\ plugin'.counters[c] = plugin.counters[c]
            /\ (SectionOf(c) \in plugin'.reported
                    <=> SectionOf(c) \in plugin.reported)
\* C5: the filter works per kind: a step in which a kind's _filter_report
\* is not called leaves that kind's counter and summary flag as they were,
\* and whatever the other kinds have done, a kind's counter, its flag and
\* what its calls returned are those of the same number of calls made on a
\* fresh plugin.
C5_PerKindIndependence == [](C5_SameAsAlone) /\ [][C5_Frame]_vars
C5_Witness ==
    /\ UA_SECTION \in plugin.reported
    /\ Len(plugin.log[OE_COUNTER]) = 1
    /\ IsIndividual(plugin.log[OE_COUNTER][1])
    /\ plugin.kb[Len(plugin.kb)].name = OE_NAME

\* C6: the knowledge base holds exactly the findings _filter_report has
\* returned, each of them once.
C6_KbIffReturned ==
    /\ KbSet = ReturnedSet
    /\ \A i \in 1..Len(plugin.kb) : \A j \in 1..Len(plugin.kb) :
           plugin.kb[i] = plugin.kb[j] => i = j

\* C7: every finding appended to the knowledge base comes with one message
\* to the output sink, and that message is the finding's description.
C7_OutIsDescription ==
    /\ Len(plugin.out) = Len(plugin.kb)
    /\ \A i \in 1..Len(plugin.kb) : plugin.out[i] = plugin.kb[i].desc

C9_NoCorsNoEffect ==
    [][(audits' = audits + 1 /\ ~last'.cors) =>
           (plugin' = plugin /\ sent' = sent /\ ~last'.raised)]_vars
C9_Witness == last.op = "audit" /\ ~last.cors /\ plugin.kb /= <<>>

\* C10: set_options raises exactly for None and for values that are empty
\* once trimmed; a value it accepts is the option's value afterwards, and
\* a probe is built with the option's value.
BlankOrNone(value) ==
    ~value.present \/ \A i \in 1..Len(value.val) : value.val[i] \in Whitespace
C10_RejectsExactlyBlank ==
    /\ last.op = "set_options" =>
           /\ last.raised <=> BlankOrNone(last.value)
           /\ ~last.raised => origin_header_value = last.value
    /\ (last.op = "audit" /\ last.cors) =>
           sent[Len(sent)].origin = origin_header_value
C10_Witness ==
    /\ last.op = "audit" /\ last.cors
    /\ setopts > 0
    /\ sent[Len(sent)].origin = Some(<<" ", "*", " ">>)

(***************************************************************************)
(* Properties of the rules, on one analysed response                       *)
(***************************************************************************)
\* what the call appended to the knowledge base, and what the _filter_report
\* calls made for a counter during the call returned
NewKb == SubSeq(plugin.kb, Len(probe.before.kb) + 1, Len(plugin.kb))
NewLog(c) ==
    SubSeq(plugin.log[c], Len(probe.before.log[c]) + 1, Len(plugin.log[c]))
RawOf(names) == {v \in Range(NewKb) : v.name \in names}
LogSince(p, c) == SubSeq(p.log[c], Len(probe.before.log[c]) + 1, Len(p.log[c]))
RawIn(p, names) ==
    {v \in {p.kb[i] : i \in (Len(probe.before.kb) + 1)..Len(p.kb)} :
         v.name \in names}

\* the lower-cased header value holds the origin, as sent, somewhere in it
EchoesOrigin(origin, ao) ==
    /\ ao.present
    /\ origin.present
    /\ \E i \in 0..Len(ao.val) :
           /\ i + Len(origin.val) <= Len(ao.val)
           /\ \A k \in 1..Len(origin.val) :
                  LowerChar(ao.val[i + k]) = origin.val[k]
\* the header value holds "true" in any letter case
SaysTrue(ac) ==
    /\ ac.present
    /\ \E i \in 0..Len(ac.val) :
           /\ i + 4 <= Len(ac.val)
           /\ LowerChar(ac.val[i + 1]) = "t" /\ LowerChar(ac.val[i + 2]) = "r"
           /\ LowerChar(ac.val[i + 3]) = "u" /\ LowerChar(ac.val[i + 4]) = "e"

\* C11: the Origin-Echo rule makes a raw finding exactly when allow_origin
\* is present and its lower-cased value contains the probe origin as sent;
\* the finding is HIGH with the "with credentials" name exactly when
\* allow_credentials is present and, lower-cased, contains 'true', and LOW
\* with the plain name otherwise.
C11_OriginEcho ==
    probe.op = "analyze" =>
        LET raw == RawOf({OE_NAME, OE_NAME_CREDS})
        IN  /\ raw /= {} <=> EchoesOrigin(probe.origin, probe.allow_origin)
            /\ Cardinality(raw) <= 1
            /\ \A v \in raw :
                   IF SaysTrue(probe.allow_credentials)
                   THEN v.severity = HIGH /\ v.name = OE_NAME_CREDS
                   ELSE v.severity = LOW /\ v.name = OE_NAME
C11_Witness ==
    /\ probe.op = "analyze"
    /\ probe.origin = Some(EVIL_ORIGIN)
    /\ probe.allow_origin /= Some(EVIL_ORIGIN)
    /\ probe.allow_credentials = Some(<<"T","r","u","e">>)
    /\ \E v \in RawOf({OE_NAME_CREDS}) : v.severity = HIGH

\* the arguments of the analysed call
ProbeReq == build_cors_request(probe.url, probe.origin)
ProbeResponse == [id |-> Len(probe.before.kb) + 1]

\* C12: the Wildcard+Credentials rule makes a raw finding (INFORMATION,
\* 'Incorrect withCredentials implementation') exactly when allow_origin is
\* "*" and allow_credentials holds 'true' in any letter case; then the
\* Wildcard-Allow rule makes its own raw finding for the same response, and
\* in a completed analysis what each of the two rules made, returned and did
\* to its counter and flag is what it does when run alone on the plugin as
\* it was before the call.
C12_WildcardCredentials ==
    probe.op = "analyze" =>
        LET uaAlone == universal_allow(probe.before, ProbeReq, probe.url, probe.origin, ProbeResponse, probe.allow_origin, probe.allow_credentials, probe.allow_methods).self
            credsAlone == universal_origin_allow_creds(probe.before, ProbeReq, probe.url, probe.origin, ProbeResponse, probe.allow_origin, probe.allow_credentials, probe.allow_methods).self
            raw == RawIn(credsAlone, {UOAC_NAME})
            rawUA == RawIn(uaAlone, {UA_NAME})
        IN  /\ raw /= {} <=> (probe.allow_origin = Some(<<"*">>)
                                 /\ SaysTrue(probe.allow_credentials))
            /\ Cardinality(raw) <= 1
            /\ \A v \in raw : v.severity = INFORMATION
            /\ raw /= {} => Cardinality(rawUA) = 1
            /\ RawOf({UA_NAME}) = rawUA
            /\ NewLog(UA_COUNTER) = LogSince(uaAlone, UA_COUNTER)
            /\ plugin.counters[UA_COUNTER] = uaAlone.counters[UA_COUNTER]
            /\ (UA_SECTION \in plugin.reported <=> UA_SECTION \in uaAlone.reported)
            /\ ~probe.raised =>
                   /\ RawOf({UOAC_NAME}) = raw
                   /\ NewLog(UOAC_COUNTER) = LogSince(credsAlone, UOAC_COUNTER)
                   /\ plugin.counters[UOAC_COUNTER]
                          = credsAlone.counters[UOAC_COUNTER]
                   /\ (UOAC_SECTION \in plugin.reported
                           <=> UOAC_SECTION \in credsAlone.reported)
C12_Witness ==
    /\ probe.op = "analyze"
    /\ probe.allow_credentials = Some(<<"T","r","u","e">>)
    /\ RawOf({UOAC_NAME}) /= {}
    /\ RawOf({UA_NAME}) /= {}
    /\ NewLog(UA_COUNTER) = <<<<>>>>
    /\ IsIndividual(NewLog(UOAC_COUNTER)[1])

RuleOrders ==
    {order \in [1..Len(RuleNames) -> Range(RuleNames)] :
         \A i, j \in 1..Len(RuleNames) : order[i] = order[j] => i = j}
RunInOrder(order) ==
    run_methods(order, [self |-> probe.before, ret |-> <<>>, raised |-> FALSE],
                ProbeReq, probe.url, probe.origin, ProbeResponse,
                probe.allow_origin, probe.allow_credentials,
                probe.allow_methods, 1)
SameOutcome(r) ==
    /\ Range(r.ret) = Range(probe.ret)
    /\ r.self.counters = plugin.counters
    /\ r.self.reported = plugin.reported

\* C14: whatever the throttle state before and whatever the response, running
\* the four rules in any order gives the same set of returned findings, the
\* same four counters and the same _reported_global as the order of
\* _analyze_server_response.
C14_OrderInsensitive ==
    probe.op = "analyze" => \A order \in RuleOrders : SameOutcome(RunInOrder(order))
\* C14, for the analyses in which the probe carried an Origin value
C14_OrderInsensitiveWithOrigin ==
    (probe.op = "analyze" /\ probe.origin.present) =>
        \A order \in RuleOrders : SameOutcome(RunInOrder(order))

\* the firing condition of each rule on the analysed response, and the
\* names its raw finding can carry
Fires(name) ==
    CASE name = "_universal_allow" -> probe.allow_origin = Some(<<"*">>)
      [] name = "_origin_echo" -> EchoesOrigin(probe.origin, probe.allow_origin)
      [] name = "_universal_origin_allow_creds" ->
             /\ probe.allow_origin = Some(<<"*">>)
             /\ SaysTrue(probe.allow_credentials)
      [] name = "_allow_methods" ->
             /\ probe.allow_methods.present
             /\ \E m \in MethodsSet(probe.allow_methods.val) :
                    \/ m \in {<<"P","U","T">>, <<"D","E","L","E","T","E">>}
                    \/ m \notin {<<"P","O","S","T">>, <<"G","E","T">>,
                                 <<"O","P","T","I","O","N","S">>}
RawNames(name) ==
    CASE name = "_universal_allow" -> {UA_NAME}
      [] name = "_origin_echo" -> {OE_NAME, OE_NAME_CREDS}
      [] name = "_universal_origin_allow_creds" -> {UOAC_NAME}
      [] name = "_allow_methods" ->
             {AM_NAME_BOTH, AM_NAME_SENSITIVE, AM_NAME_STRANGE}
OneFindingPerFiringRule ==
    /\ ~probe.raised
    /\ Len(probe.ret) = Cardinality({name \in Range(RuleNames) : Fires(name)})
    /\ \A name \in Range(RuleNames) :
           Fires(name) <=> \E i \in 1..Len(probe.ret) :
                               probe.ret[i].name \in RawNames(name)
EvilScenario ==
    /\ probe.origin = Some(EVIL_ORIGIN)
    /\ probe.allow_origin = Some(EVIL_ORIGIN)
    /\ probe.allow_credentials = Some(<<"t","r","u","e">>)
    /\ probe.allow_methods = None
WildcardScenario ==
    /\ probe.origin = Some(DEFAULT_ORIGIN)
    /\ probe.allow_origin = Some(<<"*">>)
    /\ probe.allow_credentials = Some(<<"t","r","u","e">>)
    /\ probe.allow_methods = None
ScenarioResults ==
    /\ EvilScenario =>
           /\ Len(probe.ret) = 1
           /\ probe.ret[1].severity = HIGH /\ probe.ret[1].name = OE_NAME_CREDS
    /\ WildcardScenario =>
           /\ Len(probe.ret) = 2
           /\ probe.ret[1].severity = LOW /\ probe.ret[1].name = UA_NAME
           /\ probe.ret[2].severity = INFORMATION
           /\ probe.ret[2].name = UOAC_NAME

\* C15: on a plugin that has reported nothing yet, the analysis of one probe
\* response returns exactly one finding for each rule whose firing condition
\* holds and nothing else; origin and Allow-Origin 'http://evil.test' with
\* credentials 'true' give exactly one finding, HIGH; the default origin with
\* Allow-Origin '*' and credentials 'true' gives exactly two, LOW
\* (Wildcard-Allow) and INFORMATION (Wildcard+Credentials).
C15_FreshPluginFindings ==
    (probe.op = "analyze" /\ probe.before = FreshPlugin) =>
        OneFindingPerFiringRule /\ ScenarioResults
\* C15, for the analyses in which the probe carried an Origin value
C15_FreshPluginFindingsWithOrigin ==
    (probe.op = "analyze" /\ probe.before = FreshPlugin /\ probe.origin.present)
        => OneFindingPerFiringRule /\ ScenarioResults

\* a rule run alone on the plugin as it was before the analysed call
RuleAlone(name) ==
    analysis_method(name, probe.before, ProbeReq, probe.url, probe.origin,
                    ProbeResponse, probe.allow_origin, probe.allow_credentials,
                    probe.allow_methods)
EmptyFilterChangesNothing ==
    probe.op = "filter" => probe.ret = <<>> /\ plugin = probe.before
SilentRule(name) ==
    LET r == RuleAlone(name)
    IN  r.ret = <<>> /\ ~r.raised /\ r.self = probe.before

\* C17: _filter_report called with an empty analysis_response returns the
\* empty list and leaves counters, _reported_global, knowledge base and
\* output as they were; a rule whose firing condition does not hold returns
\* the empty list, does not call _filter_report and changes nothing.
C17_EmptyChangesNothing ==
    /\ EmptyFilterChangesNothing
    /\ probe.op = "analyze" =>
           \A name \in Range(RuleNames) : ~Fires(name) => SilentRule(name)
\* C17, for the analyses in which the probe carried an Origin value
C17_EmptyChangesNothingWithOrigin ==
    /\ EmptyFilterChangesNothing
    /\ (probe.op = "analyze" /\ probe.origin.present) =>
           \A name \in Range(RuleNames) : ~Fires(name) => SilentRule(name)

(***************************************************************************)
(* Properties of the driver, the throttle state and the configuration      *)
(***************************************************************************)
\* C16: analyze_cors_security returns to its caller the findings that the
\* throttle returned for each origin's response, concatenated in origin
\* order.
C16_ReturnsConcatenation ==
    (last.op = "audit" /\ last.cors /\ ~last.raised) =>
        last.result = Some(last.analysis)

\* the severity each rule passes to _filter_report
SummarySeverity(counter) ==
    CASE counter = UA_COUNTER -> MEDIUM
      [] counter = OE_COUNTER -> HIGH
      [] counter = UOAC_COUNTER -> INFORMATION
      [] counter = AM_COUNTER -> LOW

\* C18: every individual Wildcard-Allow finding is LOW while the
\* Wildcard-Allow summary is MEDIUM; the summary of each kind has the
\* severity its rule passes to _filter_report (MEDIUM, HIGH, INFORMATION,
\* LOW), whatever the severities of the findings that were counted.
C18_SummarySeverityFixed ==
    /\ \A v \in Range(plugin.kb) : v.name = UA_NAME => v.severity = LOW
    /\ \A c \in Counters : \A i \in 1..Len(plugin.log[c]) :
           IsSummary(plugin.log[c][i]) =>
               plugin.log[c][i][1].severity = SummarySeverity(c)
C18_Witness ==
    /\ probe.op = "analyze"
    /\ NewLog(UA_COUNTER) /= <<>>
    /\ IsSummary(NewLog(UA_COUNTER)[1])
    /\ NewLog(UA_COUNTER)[1][1].severity = MEDIUM
    /\ \E v \in RawOf({UA_NAME}) : v.severity = LOW
    /\ NewLog(OE_COUNTER) /= <<>>
    /\ IsSummary(NewLog(OE_COUNTER)[1])
    /\ \E v \in RawOf({OE_NAME}) : v.severity = LOW

\* the number of _filter_report calls for a counter that returned the
\* findings they were given
IndividualReturns(c) ==
    Cardinality({i \in 1..Len(plugin.log[c]) : IsIndividual(plugin.log[c][i])})
CountersInRange ==
    \A c \in Counters :
        /\ plugin.counters[c] \in 0..(MAX_REPEATED_REPORTS + 1)
        /\ plugin.counters[c] = IndividualReturns(c)
        /\ SectionOf(c) \in plugin.reported =>
               plugin.counters[c] = MAX_REPEATED_REPORTS + 1

\* C19: in sequential execution each counter is between 0 and
\* MAX_REPEATED_REPORTS + 1, never decreases, equals the number of
\* individual findings _filter_report has returned for its kind, and a
\* section is in _reported_global only when its counter is
\* MAX_REPEATED_REPORTS + 1.
C19_CounterInvariant ==
    /\ []CountersInRange
    /\ [][\A c \in Counters : plugin'.counters[c] >= plugin.counters[c]]_vars
C19_Witness ==
    \E c \in Counters :
        /\ plugin.counters[c] = MAX_REPEATED_REPORTS + 1
        /\ SectionOf(c) \in plugin.reported
        /\ \E d \in Counters : plugin.counters[d] \in 1..MAX_REPEATED_REPORTS

\* C20: whatever set_options and audit calls were made, rejected ones
\* included, every probe is built with an origin that is not empty after
\* trimming, a rejected set_options having left origin_header_value as it
\* was.
C20_ProbeOriginNeverBlank ==
    \A i \in 1..Len(sent) : ~BlankOrNone(sent[i].origin)

=============================================================================
